---- MODULE Spec2Model ----
(***************************************************************************)
(* A model of new_match_listener.py: the fixture registry (a CSV table),   *)
(* the two output stream directories, and main()'s poll / emit / flip /    *)
(* persist loop, together with the pure helpers it calls.                  *)
(*                                                                         *)
(* Optional[T] values are sequences: None is <<>>, a present value x is    *)
(* <<x>>.  Strings the code inspects character by character (cell text,    *)
(* file names) are sequences of one-token strings.                         *)
(***************************************************************************)
EXTENDS Integers, Sequences, FiniteSets, TLC

\* ------------------------------------------------------------------ bounds
\* Number of rows of the registry table.
MaxRows == 2
\* Number of invocations of main() in one behaviour.
MaxRuns == 2
\* Longest flag column handed to normalize_flag_series on its own.
MaxCells == 2

\* --------------------------------------------------------------- constants
FINISHED_STATUS_CODE == 100

None == <<>>
Some(x) == <<x>>

\* ------------------------------------------------------------ cell values
\* A cell of the table: t is its Python type, v its number (a bool as 0/1),
\* s its characters when it is a string.
IntCell(n) == [t |-> "int", v |-> n, s |-> <<>>]
FloatCell(n) == [t |-> "float", v |-> n, s |-> <<>>]
BoolCell(b) == [t |-> "bool", v |-> IF b THEN 1 ELSE 0, s |-> <<>>]
StrCell(chars) == [t |-> "str", v |-> 0, s |-> chars]
NaNCell == [t |-> "nan", v |-> 0, s |-> <<>>]

DigitChar == <<"0", "1", "2", "3", "4", "5", "6", "7", "8", "9">>

\* str(n) for a natural number n, one token per decimal digit.
RECURSIVE Digits(_)
Digits(n) ==
    IF n < 10 THEN <<DigitChar[n + 1]>>
    ELSE Digits(n \div 10) \o <<DigitChar[(n % 10) + 1]>>

\* str(x) of a cell, as Series.astype(str) computes it.
AsTypeStr(c) ==
    CASE c.t = "bool" -> IF c.v = 1 THEN <<"T", "r", "u", "e">>
                         ELSE <<"F", "a", "l", "s", "e">>
      [] c.t = "int" -> Digits(c.v)
      [] c.t = "float" -> Digits(c.v) \o <<".", "0">>
      [] c.t = "nan" -> <<"n", "a", "n">>
      [] OTHER -> c.s

Whitespace == {" ", "\t"}

\* str.strip()
RECURSIVE LStrip(_)
LStrip(s) ==
    IF s # <<>> /\ Head(s) \in Whitespace THEN LStrip(Tail(s)) ELSE s

RECURSIVE RStrip(_)
RStrip(s) ==
    IF s # <<>> /\ s[Len(s)] \in Whitespace
    THEN RStrip(SubSeq(s, 1, Len(s) - 1))
    ELSE s

Strip(s) == RStrip(LStrip(s))

\* str.lower() on the letters the model's alphabet holds.
LowerChar(ch) ==
    CASE ch = "T" -> "t"
      [] ch = "R" -> "r"
      [] ch = "U" -> "u"
      [] ch = "E" -> "e"
      [] ch = "Y" -> "y"
      [] ch = "S" -> "s"
      [] ch = "F" -> "f"
      [] ch = "A" -> "a"
      [] ch = "L" -> "l"
      [] ch = "N" -> "n"
      [] ch = "O" -> "o"
      [] OTHER -> ch

Lower(s) == [i \in 1..Len(s) |-> LowerChar(s[i])]

\* The tuple of line 85.
TruthyStrings ==
    { <<"1">>, <<"t", "r", "u", "e">>, <<"t">>, <<"y", "e", "s">>, <<"y">> }

\* pandas' dtype for a column holding these Python values.
InferDtype(cells) ==
    IF cells # <<>> /\ \A i \in 1..Len(cells) : cells[i].t = "bool" THEN "bool"
    ELSE IF \A i \in 1..Len(cells) : cells[i].t = "int" THEN "int64"
    ELSE IF \A i \in 1..Len(cells) : cells[i].t \in {"int", "float", "nan"}
    THEN "float64"
    ELSE "object"

\* pd.read_csv's column: the dtype it infers and the values it holds. In a
\* float64 column an integer is stored as a float; in an object column every
\* non-missing field is the text that stood in the file.
ReadCsvColumn(cells) ==
    LET dt == InferDtype(cells) IN
    [ dtype |-> dt,
      cells |-> [i \in 1..Len(cells) |->
                   CASE dt = "float64" /\ cells[i].t = "int" -> FloatCell(cells[i].v)
                     [] dt = "object" /\ cells[i].t # "nan" -> StrCell(AsTypeStr(cells[i]))
                     [] OTHER -> cells[i]] ]

\* normalize_flag_series with the membership test of line 85 left out: a
\* variant in which every non-boolean column resolves to 0.
NormalizeFlagSeriesBoolOnly(ser) ==
    IF ser.dtype = "bool"
    THEN [i \in 1..Len(ser.cells) |-> ser.cells[i].v]
    ELSE [i \in 1..Len(ser.cells) |-> 0]

\* normalize_flag_series with str.strip() left out.
NormalizeFlagSeriesNoStrip(ser) ==
    IF ser.dtype = "bool"
    THEN [i \in 1..Len(ser.cells) |-> ser.cells[i].v]
    ELSE [i \in 1..Len(ser.cells) |->
            IF Lower(AsTypeStr(ser.cells[i])) \in TruthyStrings THEN 1 ELSE 0]

\* normalize_flag_series: the 0/1 column.
NormalizeFlagSeries(ser) ==
    IF ser.dtype = "bool"
    THEN [i \in 1..Len(ser.cells) |-> ser.cells[i].v]
    ELSE [i \in 1..Len(ser.cells) |->
            IF Lower(Strip(AsTypeStr(ser.cells[i]))) \in TruthyStrings THEN 1 ELSE 0]

\* ------------------------------------------------------------- file names
\* f"event_{event_id}_{ts}.json" and f"stats_{event_id}_{ts}.json": the
\* literal parts are single tokens, the numbers one token per digit.
EventName(event_id, ts) ==
    <<"event_">> \o Digits(event_id) \o <<"_">> \o Digits(ts) \o <<".json">>

StatsName(event_id, ts) ==
    <<"stats_">> \o Digits(event_id) \o <<"_">> \o Digits(ts) \o <<".json">>

\* out_paths reading the clock once for each name.
OutPathsTwoClocks(event_id, ts) ==
    [event_out |-> EventName(event_id, ts), stats_out |-> StatsName(event_id, ts + 1)]

\* out_paths: both names carry the one timestamp read at line 57.
out_paths(event_id, ts) ==
    [event_out |-> EventName(event_id, ts), stats_out |-> StatsName(event_id, ts)]

\* The temp name made by putting ".tmp" before the suffix.
TmpNameInside(name) ==
    SubSeq(name, 1, Len(name) - 1) \o <<".tmp", name[Len(name)]>>

\* path.with_suffix(path.suffix + ".tmp")
TmpName(name) == name \o <<".tmp">>

\* Path.glob(f"{kind}{event_id}_*.json") on one directory: the names that
\* start with the literal prefix and end with ".json", the star taking any
\* tokens in between.
GlobPrefix(kind, event_id) == <<kind>> \o Digits(event_id) \o <<"_">>

\* The glob with the separator after the identifier left out of the pattern.
GlobNoSeparator(dir, kind, event_id) ==
    LET pre == <<kind>> \o Digits(event_id) IN
    { f \in dir : /\ Len(f.name) >= Len(pre) + 1
                  /\ SubSeq(f.name, 1, Len(pre)) = pre
                  /\ f.name[Len(f.name)] = ".json" }

Glob(dir, kind, event_id) ==
    LET pre == GlobPrefix(kind, event_id) IN
    { f \in dir : /\ Len(f.name) >= Len(pre) + 1
                  /\ SubSeq(f.name, 1, Len(pre)) = pre
                  /\ f.name[Len(f.name)] = ".json" }

\* already_backfilled evaluated on given directory contents.
AlreadyBackfilledIn(evd, std, event_id) ==
    LET has_event == Glob(evd, "event_", event_id) # {}
        has_stats == Glob(std, "stats_", event_id) # {}
    IN  has_event /\ has_stats

\* tmp.replace(path): the file at path now holds the temp file's content and
\* the temp file is gone.
Replace(dir, tmp, path) ==
    LET src == CHOOSE f \in dir : f.name = tmp IN
    { f \in dir : f.name # tmp /\ f.name # path } \cup
        { [name |-> path, body |-> src.body] }

\* tmp.open("w") followed by json.dump: the temp file holds the payload.
WriteTmp(dir, tmp, body) ==
    { f \in dir : f.name # tmp } \cup { [name |-> tmp, body |-> body] }

\* ----------------------------------------------------------- registry rows
\* A row of the table: the flag cell, the value of a recognised identifier
\* column (None when there is no such column or it holds no number) and the
\* number following "/event/" in some other cell (None when no cell has one).
Row(flag, idcol, link) ==
    [is_future_fixture |-> flag, event_id |-> idcol, link |-> link]

\* extract_event_id_from_row without the scan of lines 98-105.
ExtractEventIdColumnOnly(row) == row.event_id

\* extract_event_id_from_row
extract_event_id_from_row(row) ==
    IF row.event_id # None THEN row.event_id
    ELSE IF row.link # None THEN row.link
    ELSE None

\* --------------------------------------------------------------- payloads
EventPaths ==
    { "event.id", "event.season.year", "event.homeTeam.name",
      "event.awayTeam.name", "event.homeScore.current",
      "event.awayScore.current", "event.status.code", "event.startTimestamp" }

\* A decoded event payload: the leaf paths it has, with their values.
EventPayload(id, code, missing) ==
    [p \in EventPaths \ missing |->
        CASE p = "event.id" -> id
          [] p = "event.status.code" -> code
          [] OTHER -> 0]

\* get_status_code
get_status_code(event_json) ==
    IF "event.status.code" \in DOMAIN event_json
    THEN Some(event_json["event.status.code"])
    ELSE None

\* parse_event_min with the check of season.year left out.
ParseEventMinLenient(ev_json) ==
    IF (EventPaths \ {"event.season.year"}) \subseteq DOMAIN ev_json
    THEN Some([event_id |-> ev_json["event.id"],
               status_code |-> ev_json["event.status.code"]])
    ELSE None

\* parse_event_min: the record, or None when a path is missing. The record
\* keeps the two fields the rest of the model reads.
parse_event_min(ev_json) ==
    IF EventPaths \subseteq DOMAIN ev_json
    THEN Some([event_id |-> ev_json["event.id"],
               status_code |-> ev_json["event.status.code"]])
    ELSE None

NullCell == [t |-> "null", v |-> 0, s |-> <<>>]

\* x.replace("%", "")
RemovePercent(s) == SelectSeq(s, LAMBDA ch : ch # "%")

DigitValue(ch) == (CHOOSE i \in 1..10 : DigitChar[i] = ch) - 1

IsDigit(ch) == \E i \in 1..10 : DigitChar[i] = ch

RECURSIVE NatOf(_)
NatOf(s) ==
    IF s = <<>> THEN 0
    ELSE 10 * NatOf(SubSeq(s, 1, Len(s) - 1)) + DigitValue(s[Len(s)])

\* float(text) on the numerals of the model: a non-empty run of digits.
FloatOfStr(s) ==
    IF s # <<>> /\ \A i \in 1..Len(s) : IsDigit(s[i]) THEN Some(NatOf(s)) ELSE None

\* _to_float
to_float(x) ==
    CASE x.t \in {"int", "float", "bool"} -> Some(x.v)
      [] x.t = "str" -> FloatOfStr(Strip(RemovePercent(x.s)))
      [] OTHER -> None

\* A statistics payload: whether the "statistics" key is there, its list of
\* periods; a period has (or lacks) "groups"; a group is a dict or not, and
\* has an optional "statisticsItems" list; an item has key, homeValue and
\* awayValue.
Item(key, home, away) == [key |-> key, homeValue |-> home, awayValue |-> away]
Group(isDict, items) == [isDict |-> isDict, statisticsItems |-> items]
Period(hasGroups, groups) == [hasGroups |-> hasGroups, groups |-> groups]
StatsPayload(hasStatistics, periods) ==
    [hasStatistics |-> hasStatistics, statistics |-> periods]

\* The inner loop of lines 210-214: the first item keyed expectedGoals sets
\* both values; without one they stay as they were.
RECURSIVE ScanItems(_, _, _, _)
ScanItems(items, j, home_xg, away_xg) ==
    IF j > Len(items) THEN [home_xg |-> home_xg, away_xg |-> away_xg]
    ELSE IF items[j].key = "expectedGoals"
    THEN [home_xg |-> to_float(items[j].homeValue),
          away_xg |-> to_float(items[j].awayValue)]
    ELSE ScanItems(items, j + 1, home_xg, away_xg)

\* The outer loop of lines 209-216: ok is FALSE when g.get raises.
RECURSIVE ScanGroups(_, _, _, _)
ScanGroups(groups, i, home_xg, away_xg) ==
    IF i > Len(groups) THEN [ok |-> TRUE, home_xg |-> home_xg, away_xg |-> away_xg]
    ELSE IF ~groups[i].isDict THEN [ok |-> FALSE, home_xg |-> None, away_xg |-> None]
    ELSE LET items == IF groups[i].statisticsItems = None THEN <<>>
                      ELSE groups[i].statisticsItems[1]
             r == ScanItems(items, 1, home_xg, away_xg)
         IN  IF r.home_xg # None
             THEN [ok |-> TRUE, home_xg |-> r.home_xg, away_xg |-> r.away_xg]
             ELSE ScanGroups(groups, i + 1, r.home_xg, r.away_xg)

\* parse_stats_min failing whenever no expectedGoals value was found.
ParseStatsMinStrict(stats_json, event_id) ==
    IF \/ ~stats_json.hasStatistics
       \/ stats_json.statistics = <<>>
       \/ ~stats_json.statistics[1].hasGroups
    THEN None
    ELSE LET r == ScanGroups(stats_json.statistics[1].groups, 1, None, None) IN
         IF r.ok /\ r.home_xg # None
         THEN Some([event_id |-> event_id, home_xg |-> r.home_xg, away_xg |-> r.away_xg])
         ELSE None

\* parse_stats_min
parse_stats_min(stats_json, event_id) ==
    IF \/ ~stats_json.hasStatistics
       \/ stats_json.statistics = <<>>
       \/ ~stats_json.statistics[1].hasGroups
    THEN None
    ELSE LET r == ScanGroups(stats_json.statistics[1].groups, 1, None, None) IN
         IF r.ok
         THEN Some([event_id |-> event_id, home_xg |-> r.home_xg, away_xg |-> r.away_xg])
         ELSE None

\* ------------------------------------------------------------------ state
VARIABLES
    csv,            \* the file at CSV_PATH: exists, hasFlagCol, rows
    evDir,          \* STREAM_EVENT_DIR: a set of [name, body]
    stDir,          \* STREAM_STATS_DIR: a set of [name, body]
    now,            \* the latest reading of time.time() by out_paths
    run,            \* how many times main() has been started
    FORCE,          \* the module-level switch of the current process
    pc,             \* where main() stands
    exc,            \* the exception main() left with, "" when none
    df,             \* the in-memory table, <<>> before load
    idx_and_eids,   \* the list built at lines 247-254
    k,              \* position in idx_and_eids (from 1)
    ev_json,        \* Optional event payload of the current iteration
    st_json,        \* Optional statistics payload of the current iteration
    ev_min,         \* Optional normalised event record
    st_min,         \* Optional normalised statistics record
    paths,          \* Optional result of out_paths
    flipped,        \* the counter of line 265
    finished_seen,  \* the counter of line 267
    startEv,        \* observer: evDir when the current run started
    startSt,        \* observer: stDir when the current run started
    startCsv,       \* observer: csv when the current run started
    startDf,        \* observer: the table as the current run loaded it
    good,           \* observer: rows whose two fetches returned the good payloads
    statsFetches,   \* observer: statistics fetches of the current run
    csvWrites,      \* observer: registry replacements of the current run
    prevDone,       \* observer: the previous run returned normally
    emitted,        \* observer: [kind, event_id, ts] of every completed rename
    note,           \* observer: what the fetch of the last step returned
    fnIn,           \* input of a helper checked on its own
    fnOut,          \* its output
    csvTmp          \* the temp file of write_csv_atomic, checked on its own

diskVars == <<csv, evDir, stDir>>
procVars == <<run, FORCE, pc, exc, df, idx_and_eids, k, ev_json, st_json,
              ev_min, st_min, paths, flipped, finished_seen>>
obsVars == <<startEv, startSt, startCsv, startDf, good, statsFetches, csvWrites,
             prevDone, emitted>>
fnVars == <<fnIn, fnOut, csvTmp>>
vars == <<diskVars, now, procVars, obsVars, note, fnVars>>

\* --------------------------------------------------- what the stub returns
EvNotStarted(eid) == EventPayload(eid, 0, {})
EvFinished(eid) == EventPayload(eid, FINISHED_STATUS_CODE, {})
EvFinishedNoSeason(eid) == EventPayload(eid, FINISHED_STATUS_CODE, {"event.season.year"})

\* read_json_from_page after driver.get(EVENT_URL): None when nothing parsed
\* within MAX_WAIT_SECONDS.
EventResponses(eid) ==
    { None, Some(EvNotStarted(eid)), Some(EvFinished(eid)), Some(EvFinishedNoSeason(eid)) }

StMalformed == StatsPayload(FALSE, <<>>)
StNoXg ==
    StatsPayload(TRUE, << Period(TRUE,
        << Group(TRUE, Some(<< Item("ballPossession", StrCell(<<"5", "5", "%">>),
                                    StrCell(<<"4", "5", "%">>)) >>)) >>) >>)
StWithXg ==
    StatsPayload(TRUE, << Period(TRUE,
        << Group(TRUE, Some(<< Item("expectedGoals", IntCell(2), IntCell(1)) >>)) >>) >>)

\* The well-formed statistics the provider has for a match: with the
\* expectedGoals item for some matches, without it for others.
StatsOf(eid) == IF eid = 1 THEN StWithXg ELSE StNoXg

\* read_json_from_page after driver.get(STATS_URL): None when nothing parsed
\* within MAX_WAIT_SECONDS.
StatsResponses(eid) == { None, Some(StMalformed), Some(StatsOf(eid)) }

\* ------------------------------------------------------------------- Init
PendingId1 == Row(IntCell(1), Some(1), None)
PendingId12 == Row(IntCell(1), None, Some(12))
PendingNoId == Row(IntCell(1), None, None)
ResolvedId1 == Row(IntCell(0), Some(1), None)

RowChoices == { PendingId1, PendingId12, PendingNoId, ResolvedId1 }

\* The rows a registry is drawn from, in file order: two pending matches with
\* different identifiers (one a digit prefix of the other), a pending row
\* without identifier, a resolved row, and a second pending row for the
\* first match.
RegistryRows == << PendingId1, PendingId12, PendingNoId, ResolvedId1, PendingId1 >>

\* The registries of n rows: the rows at n increasing places of RegistryRows.
Registries(n) ==
    { [i \in 1..n |-> RegistryRows[f[i]]] :
        f \in { g \in [1..n -> 1..Len(RegistryRows)] :
                  \A i \in 1..(n - 1) : g[i] < g[i + 1] } }

Table(rows) == [exists |-> TRUE, hasFlagCol |-> TRUE, rows |-> rows]
NoCsv == [exists |-> FALSE, hasFlagCol |-> FALSE, rows |-> <<>>]
CsvWithoutFlag == [exists |-> TRUE, hasFlagCol |-> FALSE, rows |-> <<>>]

InitProc ==
    /\ run = 0
    /\ FORCE = FALSE
    /\ pc = "idle"
    /\ exc = ""
    /\ df = <<>>
    /\ idx_and_eids = <<>>
    /\ k = 0
    /\ ev_json = None
    /\ st_json = None
    /\ ev_min = None
    /\ st_min = None
    /\ paths = None
    /\ flipped = 0
    /\ finished_seen = 0

NoNote == [kind |-> "", resp |-> None]

InitObs ==
    /\ note = NoNote
    /\ startEv = {}
    /\ startSt = {}
    /\ startCsv = csv
    /\ startDf = <<>>
    /\ good = {}
    /\ statsFetches = 0
    /\ csvWrites = 0
    /\ prevDone = FALSE
    /\ emitted = {}

Init ==
    /\ csv \in {NoCsv, CsvWithoutFlag} \cup { Table(r) : r \in Registries(MaxRows) }
    /\ evDir = {}
    /\ stDir = {}
    /\ now = 1
    /\ InitProc
    /\ InitObs
    /\ fnIn = <<>>
    /\ fnOut = <<>>
    /\ csvTmp = None

\* ----------------------------------------------------------------- main()
Terminal == {"done", "raised", "killed"}

already_backfilled(event_id) == AlreadyBackfilledIn(evDir, stDir, event_id)

\* Lines 237-238: the table with its flag column normalised.
LoadDf(rows) ==
    LET col == ReadCsvColumn([i \in 1..Len(rows) |-> rows[i].is_future_fixture])
        flags == NormalizeFlagSeries(col)
    IN  [i \in 1..Len(rows) |-> [rows[i] EXCEPT !.is_future_fixture = IntCell(flags[i])]]

\* Line 241 without the comparison with 1: every row.
FutureIdxAll(d) == [i \in 1..Len(d) |-> i]

\* Line 241.
FutureIdx(d) ==
    SelectSeq([i \in 1..Len(d) |-> i], LAMBDA i : d[i].is_future_fixture.v = 1)

\* Lines 247-254.
IdxAndEids(d) ==
    LET fut == FutureIdx(d)
        withId == SelectSeq(fut, LAMBDA i : extract_event_id_from_row(d[i]) # None)
    IN  [j \in 1..Len(withId) |->
            [row_idx |-> withId[j], eid |-> extract_event_id_from_row(d[withId[j]])[1]]]

ResetIteration ==
    /\ ev_json' = None
    /\ st_json' = None
    /\ ev_min' = None
    /\ st_min' = None
    /\ paths' = None

\* The exception leaves main() through the finally clause of line 320; the
\* locals of the iteration are gone.
Raise(e) ==
    /\ pc' = "raised"
    /\ exc' = e
    /\ ResetIteration

\* The test of line 234 never failing.
HasFlagColumnAlways(c) == TRUE

\* Line 234: the table read from the file has the column is_future_fixture.
HasFlagColumn(c) == c.hasFlagCol

\* Lines 226-272: a new process runs main() up to the head of the loop.
StartRun(force) ==
    /\ note' = NoNote
    /\ pc \in {"idle"} \cup Terminal
    /\ run < MaxRuns
    /\ run' = run + 1
    /\ FORCE' = force
    /\ prevDone' = (pc = "done")
    /\ startEv' = evDir
    /\ startSt' = stDir
    /\ startCsv' = csv
    /\ startDf' = (IF csv.exists /\ HasFlagColumn(csv) THEN LoadDf(csv.rows) ELSE <<>>)
    /\ good' = {}
    /\ statsFetches' = 0
    /\ csvWrites' = 0
    /\ flipped' = 0
    /\ finished_seen' = 0
    /\ IF ~csv.exists
       THEN /\ Raise("FileNotFoundError")
            /\ df' = <<>> /\ idx_and_eids' = <<>> /\ k' = 0 /\ now' = now
       ELSE IF ~HasFlagColumn(csv)
       THEN /\ Raise("ValueError")
            /\ df' = <<>> /\ idx_and_eids' = <<>> /\ k' = 0 /\ now' = now
       ELSE LET d == LoadDf(csv.rows) IN
            /\ df' = d
            /\ IF FutureIdx(d) = <<>>
               THEN /\ pc' = "done" /\ exc' = ""
                    /\ ResetIteration
                    /\ idx_and_eids' = <<>> /\ k' = 0 /\ now' = now
               ELSE IF IdxAndEids(d) = <<>>
               THEN /\ Raise("ValueError")
                    /\ idx_and_eids' = <<>> /\ k' = 0 /\ now' = now
               ELSE /\ pc' = "loop" /\ exc' = ""
                    /\ ResetIteration
                    /\ idx_and_eids' = IdxAndEids(d)
                    /\ k' = 1
                    /\ now' = now
    /\ UNCHANGED <<diskVars, emitted, fnVars>>

InLoop == pc = "loop" /\ k <= Len(idx_and_eids)
Cur == idx_and_eids[k]

\* `break` in place of `continue`: the loop is left.
ContinueBreak ==
    /\ pc' = "persist"
    /\ k' = k
    /\ ResetIteration

\* `continue`: on to the next element of idx_and_eids.
Continue ==
    /\ pc' = "loop"
    /\ k' = k + 1
    /\ ResetIteration

\* Lines 274 and 320-321: the list is exhausted, the driver is quit.
LoopExit ==
    /\ note' = NoNote
    /\ pc = "loop"
    /\ k > Len(idx_and_eids)
    /\ pc' = "persist"
    /\ UNCHANGED <<diskVars, now, run, FORCE, exc, df, idx_and_eids, k, ev_json,
                   st_json, ev_min, st_min, paths, flipped, finished_seen,
                   obsVars, fnVars>>

\* The guard of line 275 with FORCE ignored.
SkipTestAlways(event_id) == already_backfilled(event_id)

\* The guard of line 275 never taken.
SkipTestNever(event_id) == FALSE

\* The guard of line 275.
SkipTest(event_id) == (~FORCE) /\ already_backfilled(event_id)

\* Lines 275-277.
SkipBackfilled ==
    /\ note' = NoNote
    /\ InLoop
    /\ SkipTest(Cur.eid)
    /\ Continue
    /\ UNCHANGED <<diskVars, now, run, FORCE, exc, df, idx_and_eids, flipped,
                   finished_seen, obsVars, fnVars>>

\* Lines 284-289 with a payload that has no status code taken as finished.
EventPassesLoose(j) ==
    j # None /\ get_status_code(j[1]) \in {None, Some(FINISHED_STATUS_CODE)}

\* Lines 284-289 without the test of the status code.
EventPassesAny(j) == j # None

\* Lines 284-289: the iteration goes on only with a payload whose status code
\* is the finished one.
EventPasses(j) ==
    j # None /\ get_status_code(j[1]) = Some(FINISHED_STATUS_CODE)

\* Lines 280-291: the event page is fetched and read, and its status tested.
FetchEvent ==
    /\ InLoop
    /\ ~SkipTest(Cur.eid)
    /\ \E resp \in EventResponses(Cur.eid) :
          /\ note' = [kind |-> "event", resp |-> resp]
          /\ IF EventPasses(resp)
             THEN /\ ev_json' = resp
                  /\ finished_seen' = finished_seen + 1
                  /\ pc' = "fetch_stats"
                  /\ UNCHANGED <<k, st_json, ev_min, st_min, paths>>
             ELSE /\ Continue
                  /\ UNCHANGED finished_seen
    /\ UNCHANGED <<diskVars, now, run, FORCE, exc, df, idx_and_eids, flipped,
                   obsVars, fnVars>>

\* The payload pair a stub hands out for a finished match with valid
\* statistics.
GoodFetch(ev, st, eid) ==
    /\ ev = Some(EvFinished(eid))
    /\ st = Some(StatsOf(eid))

\* Line 57 reading the same millisecond as the call before.
TickSame(t) == t

\* Line 57: the clock reading of this call. At least the two sleeps of lines
\* 282 and 296 (and the warm-up of line 272 in a new process) lie between two
\* calls, so each call reads a later millisecond than the one before; the
\* model numbers the readings.
Tick(t) == t + 1

\* The test of line 304 looking at the event record only.
BothParsedEventOnly(e, s) == e # None

\* The test of line 304 looking at the statistics record only.
BothParsedStatsOnly(e, s) == s # None

\* The test of line 304.
BothParsed(e, s) == e # None /\ s # None

\* Lines 294-307: the statistics page is fetched and read, both payloads are
\* normalised, and the two names are chosen.
FetchStats ==
    /\ pc = "fetch_stats"
    /\ \E resp \in StatsResponses(Cur.eid) :
          /\ note' = [kind |-> "stats", resp |-> resp]
          /\ statsFetches' = statsFetches + 1
          /\ good' = IF GoodFetch(ev_json, resp, Cur.eid)
                     THEN good \cup {Cur.row_idx} ELSE good
          /\ IF resp = None
             THEN /\ Continue
                  /\ UNCHANGED now
             ELSE LET e == parse_event_min(ev_json[1])
                      s == parse_stats_min(resp[1], Cur.eid)
                  IN  IF BothParsed(e, s)
                      THEN /\ st_json' = resp
                           /\ ev_min' = e
                           /\ st_min' = s
                           /\ now' = Tick(now)
                           /\ paths' = Some(out_paths(Cur.eid, now'))
                           /\ pc' = "write_event"
                           /\ UNCHANGED <<k, ev_json>>
                      ELSE /\ Continue
                           /\ UNCHANGED now
    /\ UNCHANGED <<diskVars, run, FORCE, exc, df, idx_and_eids, flipped,
                   finished_seen, startEv, startSt, startCsv, startDf,
                   csvWrites,
                   prevDone, emitted, fnVars>>

\* driver.get raises (page-load timeout, lost session) at line 280 or 294.
FetchRaises ==
    /\ note' = NoNote
    /\ \/ InLoop /\ ~SkipTest(Cur.eid)
       \/ pc = "fetch_stats"
    /\ Raise("WebDriverException")
    /\ UNCHANGED <<diskVars, now, run, FORCE, df, idx_and_eids, k, flipped,
                   finished_seen, obsVars, fnVars>>

\* write_json_atomic: the record goes to the temp name, which is then renamed.
write_json_atomic(dir, path, payload) ==
    Replace(WriteTmp(dir, TmpName(path), payload), TmpName(path), path)

\* Line 308.
WriteEvent ==
    /\ note' = NoNote
    /\ pc = "write_event"
    /\ evDir' = write_json_atomic(evDir, paths[1].event_out, ev_min)
    /\ emitted' = emitted \cup {[kind |-> "event", event_id |-> Cur.eid, ts |-> now]}
    /\ pc' = "write_stats"
    /\ UNCHANGED <<csv, stDir, now, run, FORCE, exc, df, idx_and_eids, k,
                   ev_json, st_json, ev_min, st_min, paths, flipped,
                   finished_seen, startEv, startSt, startCsv, startDf,
                   good,
                   statsFetches, csvWrites, prevDone, fnVars>>

\* Lines 313-315 with the flag of the first listed row set instead of the
\* current one.
FlipTargetFirst == idx_and_eids[1].row_idx

\* The row whose flag lines 313-315 set.
FlipTarget == Cur.row_idx

\* Lines 309-315: the statistics record is written, the row's flag set to 0,
\* and the loop goes on.
WriteStats ==
    /\ note' = NoNote
    /\ pc = "write_stats"
    /\ stDir' = write_json_atomic(stDir, paths[1].stats_out, st_min)
    /\ emitted' = emitted \cup {[kind |-> "stats", event_id |-> Cur.eid, ts |-> now]}
    /\ IF df[FlipTarget].is_future_fixture.v = 1
       THEN /\ df' = [df EXCEPT ![FlipTarget].is_future_fixture = IntCell(0)]
            /\ flipped' = flipped + 1
       ELSE UNCHANGED <<df, flipped>>
    /\ Continue
    /\ UNCHANGED <<csv, evDir, now, run, FORCE, exc, idx_and_eids,
                   finished_seen, startEv, startSt, startCsv, startDf,
                   good,
                   statsFetches, csvWrites, prevDone, fnVars>>

\* What an interrupted write_json_atomic leaves in its directory: nothing, or
\* a temp file with an incomplete record.
Interrupted(dir, path) == { dir, WriteTmp(dir, TmpName(path), None) }

\* write_json_atomic raises OSError at line 308 or 309.
WriteRaises ==
    /\ note' = NoNote
    /\ \/ /\ pc = "write_event"
          /\ evDir' \in Interrupted(evDir, paths[1].event_out)
          /\ UNCHANGED stDir
       \/ /\ pc = "write_stats"
          /\ stDir' \in Interrupted(stDir, paths[1].stats_out)
          /\ UNCHANGED evDir
    /\ Raise("OSError")
    /\ UNCHANGED <<csv, now, run, FORCE, df, idx_and_eids, k, flipped,
                   finished_seen, obsVars, fnVars>>

\* The test of line 324 always true.
ShouldPersistAlways == TRUE

\* The test of line 324.
ShouldPersist == flipped > 0

\* Lines 324 and 328: nothing was flipped, main() returns.
PersistSkip ==
    /\ note' = NoNote
    /\ pc = "persist"
    /\ ~ShouldPersist
    /\ pc' = "done"
    /\ UNCHANGED <<diskVars, now, run, FORCE, exc, df, idx_and_eids, k, ev_json,
                   st_json, ev_min, st_min, paths, flipped, finished_seen,
                   obsVars, fnVars>>

\* Lines 324-328: write_csv_atomic replaces the registry by the table in
\* memory, then main() returns. (The steps inside write_csv_atomic, with
\* its temp file, are those of SpecCsv.)
Persist ==
    /\ note' = NoNote
    /\ pc = "persist"
    /\ ShouldPersist
    /\ csv' = Table(df)
    /\ csvWrites' = csvWrites + 1
    /\ pc' = "done"
    /\ UNCHANGED <<evDir, stDir, now, run, FORCE, exc, df, idx_and_eids, k,
                   ev_json, st_json, ev_min, st_min, paths, flipped,
                   finished_seen, startEv, startSt, startCsv, startDf,
                   good,
                   statsFetches, prevDone, emitted, fnVars>>

\* write_csv_atomic raises OSError: the registry is as it was.
PersistRaises ==
    /\ note' = NoNote
    /\ pc = "persist"
    /\ ShouldPersist
    /\ Raise("PersistOSError")
    /\ UNCHANGED <<csv, evDir, stDir, now, run, FORCE, df, idx_and_eids, k,
                   flipped, finished_seen, obsVars, fnVars>>

\* The process is killed: its memory is gone, the files stay as they are; a
\* kill inside a write leaves what an interrupted write leaves.
Kill ==
    /\ note' = NoNote
    /\ pc \notin {"idle"} \cup Terminal
    /\ \/ /\ pc = "write_event"
          /\ evDir' \in Interrupted(evDir, paths[1].event_out)
          /\ UNCHANGED stDir
       \/ /\ pc = "write_stats"
          /\ stDir' \in Interrupted(stDir, paths[1].stats_out)
          /\ UNCHANGED evDir
       \/ /\ pc \notin {"write_event", "write_stats"}
          /\ UNCHANGED <<evDir, stDir>>
    /\ pc' = "killed"
    /\ exc' = ""
    /\ df' = <<>>
    /\ idx_and_eids' = <<>>
    /\ k' = 0
    /\ ResetIteration
    /\ flipped' = 0
    /\ finished_seen' = 0
    /\ good' = {}
    /\ statsFetches' = 0
    /\ UNCHANGED <<csv, now, run, FORCE, startEv, startSt, startCsv, startDf,
                   csvWrites, prevDone, emitted, fnVars>>

Next ==
    \/ \E force \in BOOLEAN : StartRun(force)
    \/ LoopExit
    \/ SkipBackfilled
    \/ FetchEvent
    \/ FetchStats
    \/ FetchRaises
    \/ WriteEvent
    \/ WriteStats
    \/ WriteRaises
    \/ PersistSkip
    \/ Persist
    \/ PersistRaises
    \/ Kill

Spec == Init /\ [][Next]_vars

\* ------------------------------------------- normalize_flag_series alone
FlagCells ==
    { BoolCell(TRUE), BoolCell(FALSE), IntCell(0), IntCell(1), IntCell(2),
      IntCell(11), FloatCell(0), FloatCell(1), NaNCell,
      StrCell(<<>>), StrCell(<<" ">>),
      StrCell(<<"1">>), StrCell(<<"0">>), StrCell(<<" ", "1">>),
      StrCell(<<"1", ".", "0">>), StrCell(<<"1", "1">>),
      StrCell(<<"t", "r", "u", "e">>), StrCell(<<"T", "r", "u", "e">>),
      StrCell(<<"T", "R", "U", "E">>), StrCell(<<" ", "t", "r", "u", "e", "\t">>),
      StrCell(<<"t", " ", "r", "u", "e">>), StrCell(<<"t", "r">>),
      StrCell(<<"t">>), StrCell(<<"T">>), StrCell(<<"T", " ">>),
      StrCell(<<"y", "e", "s">>), StrCell(<<" ", "Y", "e", "s">>),
      StrCell(<<"y", "e", "s", "s">>), StrCell(<<"y">>), StrCell(<<"\t", "Y">>),
      StrCell(<<"n", "o">>), StrCell(<<"f", "a", "l", "s", "e">>),
      StrCell(<<"F", "a", "l", "s", "e">>), StrCell(<<"o", "n">>) }

\* Every column of at most MaxCells cells.
FlagColumns == UNION { [1..n -> FlagCells] : n \in 0..MaxCells }

\* pd.Series(values): the values as they are, integers stored as floats in a
\* float64 column.
SeriesOf(cells) ==
    LET dt == InferDtype(cells) IN
    [ dtype |-> dt,
      cells |-> [i \in 1..Len(cells) |->
                   IF dt = "float64" /\ cells[i].t = "int"
                   THEN FloatCell(cells[i].v) ELSE cells[i]] ]

InitFlag ==
    /\ csv = NoCsv
    /\ evDir = {}
    /\ stDir = {}
    /\ now = 1
    /\ InitProc
    /\ InitObs
    /\ fnIn \in { SeriesOf(c) : c \in FlagColumns } \cup
                { ReadCsvColumn(c) : c \in FlagColumns }
    /\ fnOut = None
    /\ csvTmp = None

\* The call normalize_flag_series(s).
CallNormalizeFlagSeries ==
    /\ UNCHANGED note
    /\ fnOut = None
    /\ fnOut' = Some(NormalizeFlagSeries(fnIn))
    /\ UNCHANGED <<diskVars, now, procVars, obsVars, fnIn, csvTmp>>

NextFlag == CallNormalizeFlagSeries

SpecFlag == InitFlag /\ [][NextFlag]_vars

\* The cells the flag rule names: boolean true, or text that is one of the
\* five words in any letter case with any whitespace around it.
IsPaddedWord(x, w) ==
    \E a \in 0..Len(x) :
        /\ a + Len(w) <= Len(x)
        /\ \A i \in 1..a : x[i] \in Whitespace
        /\ \A i \in 1..Len(w) : LowerChar(x[a + i]) = w[i]
        /\ \A i \in (a + Len(w) + 1)..Len(x) : x[i] \in Whitespace

RecognisedTruthy(c) ==
    \/ c.t = "bool" /\ c.v = 1
    \/ \E w \in TruthyStrings : IsPaddedWord(AsTypeStr(c), w)

AllIds ==
    { extract_event_id_from_row(r)[1] :
        r \in { q \in RowChoices : extract_event_id_from_row(q) # None } }

\* The flags of the registry the run loaded, normalised.
LoadedFlag(i) == LoadDf(startCsv.rows)[i].is_future_fixture.v

\* The flags of the registry now on disk, normalised.
DiskFlag(i) == LoadDf(csv.rows)[i].is_future_fixture.v

DistinctIds ==
    \A a, b \in 1..Len(idx_and_eids) :
        a # b => idx_and_eids[a].eid # idx_and_eids[b].eid

\* The identifiers of the rows whose fetches returned the good payloads.
GoodIds ==
    { idx_and_eids[j].eid : j \in { j \in 1..Len(idx_and_eids) :
                                      idx_and_eids[j].row_idx \in good } }

\* The files of a directory, temp files included, whose name starts with the
\* kind and the identifier.
FilesOf(dir, kind, id) ==
    LET pre == GlobPrefix(kind, id) IN
    { f \in dir : Len(f.name) >= Len(pre) /\ SubSeq(f.name, 1, Len(pre)) = pre }

\* C1: after one complete run with FORCE off, no prior output files and
\* pairwise distinct identifiers, a row that was pending has flag 0 (in memory
\* and in the registry file) exactly when its fetches returned "finished" with
\* a parseable event and statistics payload; each such identifier has exactly
\* one event file and one stats file and no other file exists; and the
\* registry file was rewritten iff there is such an identifier.
C1_OneRunOutcome ==
    (/\ pc = "done"
     /\ ~FORCE
     /\ startEv = {}
     /\ startSt = {}
     /\ DistinctIds)
    =>
    /\ \A i \in 1..Len(df) :
          LoadedFlag(i) = 1 =>
              /\ (df[i].is_future_fixture.v = 0) <=> (i \in good)
              /\ (DiskFlag(i) = 0) <=> (i \in good)
    /\ \A id \in AllIds :
          /\ Cardinality(Glob(evDir, "event_", id)) = (IF id \in GoodIds THEN 1 ELSE 0)
          /\ Cardinality(Glob(stDir, "stats_", id)) = (IF id \in GoodIds THEN 1 ELSE 0)
    /\ Cardinality(evDir) = Cardinality(GoodIds)
    /\ Cardinality(stDir) = Cardinality(GoodIds)
    /\ csvWrites = (IF good # {} THEN 1 ELSE 0)
    /\ (good = {} => csv = startCsv)

C1_Witness ==
    /\ pc = "done"
    /\ ~FORCE
    /\ startEv = {}
    /\ startSt = {}
    /\ Len(idx_and_eids) = 2
    /\ DistinctIds
    /\ good = {idx_and_eids[1].row_idx}
    /\ df[idx_and_eids[1].row_idx].is_future_fixture.v = 0
    /\ df[idx_and_eids[2].row_idx].is_future_fixture.v = 1
    /\ csvWrites = 1

\* C2: as long as no event payload of the run carried the finished status
\* code, the run has fetched no statistics, has written no event or stats
\* file, holds every flag as loaded, and has not rewritten the registry file.
C2_NothingFinished ==
    (pc \notin {"idle", "killed"} /\ finished_seen = 0)
    =>
    /\ statsFetches = 0
    /\ evDir = startEv
    /\ stDir = startSt
    /\ (df # <<>> => df = LoadDf(startCsv.rows))
    /\ csv = startCsv
    /\ csvWrites = 0

C2_Witness ==
    /\ pc = "done"
    /\ finished_seen = 0
    /\ Len(idx_and_eids) = 2
    /\ k = 3
    /\ run = 1
    /\ evDir = {}
    /\ csv = startCsv

\* C3 as stated: a second complete run with FORCE off, after a first
\* complete run, leaves both stream directories as it found them.
C3_SecondRunEmitsNothing ==
    (pc = "done" /\ run >= 2 /\ prevDone /\ ~FORCE)
    => (evDir = startEv /\ stDir = startSt)

\* C3 amended: in a second run with FORCE off, after a first complete run,
\* no event or stats file is added for an identifier that was already
\* backfilled when the second run started; a file is added only for an
\* identifier whose fetches in the second run returned "finished" with a
\* parseable event and statistics payload.
C3_NoReEmission ==
    (pc # "idle" /\ run >= 2 /\ prevDone /\ ~FORCE)
    =>
    \A id \in AllIds :
        /\ AlreadyBackfilledIn(startEv, startSt, id) =>
              /\ FilesOf(evDir, "event_", id) = FilesOf(startEv, "event_", id)
              /\ FilesOf(stDir, "stats_", id) = FilesOf(startSt, "stats_", id)
        /\ (/\ pc # "killed"
            /\ \/ FilesOf(evDir, "event_", id) # FilesOf(startEv, "event_", id)
               \/ FilesOf(stDir, "stats_", id) # FilesOf(startSt, "stats_", id))
           => id \in GoodIds

C3_Witness ==
    /\ pc = "done"
    /\ run = 2
    /\ prevDone
    /\ ~FORCE
    /\ \E j \in 1..Len(idx_and_eids) :
          AlreadyBackfilledIn(startEv, startSt, idx_and_eids[j].eid)

\* The step was a fetch that yielded no parseable content.
TimeoutStep == note'.kind \in {"event", "stats"} /\ note'.resp = None

\* C4: a fetch (of the event or of the statistics) that yields no parseable
\* content leaves the table, the registry file and both stream directories
\* as they were and moves the loop to the next identifier; and a run that
\* leaves the loop has gone through the whole list.
C4_TimeoutSkipsOnlyThisId ==
    /\ [](pc \in {"persist", "done"} /\ idx_and_eids # <<>>
            => k = Len(idx_and_eids) + 1)
    /\ [][TimeoutStep =>
            /\ pc' = "loop"
            /\ k' = k + 1
            /\ idx_and_eids' = idx_and_eids
            /\ df' = df
            /\ csv' = csv
            /\ evDir' = evDir
            /\ stDir' = stDir]_vars

C4_Witness ==
    /\ note = [kind |-> "event", resp |-> None]
    /\ InLoop
    /\ k = 2

\* C5: already_backfilled(id) is true exactly when both a completed event
\* rename and a completed stats rename for this very identifier have
\* happened, and once true it stays true.
C5_AlreadyBackfilled ==
    /\ [](\A id \in AllIds :
            already_backfilled(id) <=>
                /\ \E e \in emitted : e.kind = "event" /\ e.event_id = id
                /\ \E e \in emitted : e.kind = "stats" /\ e.event_id = id)
    /\ [][\/ (evDir' = evDir /\ stDir' = stDir)
          \/ \A id \in AllIds : already_backfilled(id) => already_backfilled(id)']_vars

C5_Witness ==
    /\ already_backfilled(12)
    /\ ~already_backfilled(1)
    /\ Glob(evDir, "event_", 1) # {}
    /\ \E f \in stDir : f.name[Len(f.name)] = ".tmp"

NullStats(eid) == [event_id |-> eid, home_xg |-> None, away_xg |-> None]

\* C7: when the statistics fetched for a finished identifier are well formed
\* but hold no expectedGoals item (and the event payload has its eight
\* paths), the step yields the record with both values null and goes on to
\* the writes; and the write of such a record puts it into the stats
\* directory, beside the event record already in the event directory, and
\* sets the row's flag to 0.
C7_NullXgStillEmitted ==
    /\ [][(/\ note'.kind = "stats"
           /\ note'.resp = Some(StNoXg)
           /\ EventPaths \subseteq DOMAIN ev_json[1])
          => (/\ pc' = "write_event"
              /\ st_min' = Some(NullStats(Cur.eid))
              /\ ev_min' # None)]_vars
    /\ [][(/\ pc = "write_stats"
           /\ st_min = Some(NullStats(Cur.eid))
           /\ pc' = "loop")
          => (/\ [name |-> paths[1].stats_out, body |-> st_min] \in stDir'
              /\ [name |-> paths[1].event_out, body |-> ev_min] \in evDir'
              /\ df'[Cur.row_idx].is_future_fixture.v = 0)]_vars

C7_Witness ==
    /\ pc = "loop"
    /\ note = NoNote
    /\ flipped = 1
    /\ \E f \in stDir : f.body = Some(NullStats(12)) /\ f.name = StatsName(12, now)
    /\ \E f \in evDir : f.name = EventName(12, now)

\* The statistics fetch, the event normaliser or the stats normaliser failed
\* in this step.
FailedStep ==
    /\ note'.kind = "stats"
    /\ \/ note'.resp = None
       \/ ~(EventPaths \subseteq DOMAIN ev_json[1])
       \/ note'.resp = Some(StMalformed)

\* C8: a step in which the statistics fetch, the event normaliser or the
\* stats normaliser fails writes nothing and ends the iteration; and whenever
\* a write is pending, both records have been produced.
C8_NoPartialEmission ==
    /\ [](pc \in {"write_event", "write_stats"} => ev_min # None /\ st_min # None)
    /\ [][FailedStep =>
            /\ pc' = "loop"
            /\ k' = k + 1
            /\ evDir' = evDir
            /\ stDir' = stDir
            /\ df' = df]_vars

C8_Witness ==
    /\ pc = "loop"
    /\ k = 2
    /\ note = [kind |-> "stats", resp |-> Some(StatsOf(idx_and_eids[1].eid))]
    /\ evDir = {}
    /\ stDir = {}

\* C9: a failure while writing the event or stats file of one identifier
\* does not end the run.
C9_WriteFailureDoesNotAbort == ~(pc = "raised" /\ exc = "OSError")

\* C10: when main() returns or raises out of the loop with at least one row
\* resolved in memory, the registry file holds those resolved rows.
C10_PersistOnEveryExit ==
    (pc \in {"done", "raised"} /\ flipped > 0 /\ exc # "PersistOSError")
    => csv = Table(df)

\* main() left with the error of line 230 or of line 235.
LoadFailed ==
    /\ pc = "raised"
    /\ \/ exc = "FileNotFoundError"
       \/ exc = "ValueError" /\ ~startCsv.hasFlagCol

\* C11: a main() started on a missing registry file, or on one without the
\* column is_future_fixture, raises at once (FileNotFoundError, ValueError);
\* when it has raised, no table and no list of identifiers exist, nothing has
\* been fetched, both stream directories and the registry file are as they
\* were, and the only step that follows is the start of another process.
C11_LoadErrorsAreFatal ==
    /\ [][(run' = run + 1 /\ (~csv.exists \/ ~csv.hasFlagCol))
          => (/\ pc' = "raised"
              /\ exc' = (IF csv.exists THEN "ValueError" ELSE "FileNotFoundError")
              /\ note' = NoNote)]_vars
    /\ [](LoadFailed =>
            /\ df = <<>>
            /\ idx_and_eids = <<>>
            /\ note = NoNote
            /\ finished_seen = 0
            /\ statsFetches = 0
            /\ csvWrites = 0
            /\ evDir = startEv
            /\ stDir = startSt
            /\ csv = startCsv)
    /\ [][LoadFailed => run' = run + 1]_vars

C11_Witness ==
    /\ LoadFailed
    /\ exc = "ValueError"
    /\ csv = CsvWithoutFlag
    /\ run = 2

\* C12: when main() has returned with FORCE off, the rows of idx_and_eids
\* that share an identifier with a row flipped in this run (its pair was
\* emitted) are all 0, in the table and in the registry file.
C12_AllRowsOfIdResolved ==
    (pc = "done" /\ ~FORCE)
    =>
    \A a, b \in 1..Len(idx_and_eids) :
        (/\ idx_and_eids[a].eid = idx_and_eids[b].eid
         /\ df[idx_and_eids[a].row_idx].is_future_fixture.v = 0)
        => /\ df[idx_and_eids[b].row_idx].is_future_fixture.v = 0
           /\ DiskFlag(idx_and_eids[b].row_idx) = 0

\* C13: when a first main() ended before its persist (killed, or left by an
\* exception) and a second main() with FORCE off has returned, the outcome is
\* the one of a single uninterrupted run: with pairwise distinct
\* identifiers, a listed row is 0 in the registry file exactly when the pair
\* of its identifier is in the stream directories.
C13_TerminatedRunEqualsNoRun ==
    (/\ pc = "done"
     /\ run = 2
     /\ ~prevDone
     /\ ~FORCE
     /\ DistinctIds)
    =>
    \A j \in 1..Len(idx_and_eids) :
        already_backfilled(idx_and_eids[j].eid)
            <=> (DiskFlag(idx_and_eids[j].row_idx) = 0)

\* C14: in a run with FORCE off that started with no stats record on disk
\* (no identifier was backfilled in any earlier run, so FORCE has made no
\* difference so far), each identifier has at most one event record and at
\* most one stats record in the stream directories.
C14_AtMostOneRecordPerId ==
    (~FORCE /\ startSt = {})
    =>
    \A id \in AllIds :
        /\ Cardinality(Glob(evDir, "event_", id)) <= 1
        /\ Cardinality(Glob(stDir, "stats_", id)) <= 1

\* The step ends the processing of the current identifier in a failure: the
\* event fetch gave nothing or a status other than finished, the statistics
\* fetch or a normaliser failed, or a file write raised.
FailureStep ==
    /\ k \in 1..Len(idx_and_eids)
    /\ \/ note'.kind = "event" /\ ~EventPasses(note'.resp)
       \/ note'.kind = "stats" /\ pc' = "loop"
       \/ pc \in {"write_event", "write_stats"} /\ pc' = "raised"

\* C15 as stated: right after an event fetch that failed for an identifier,
\* already_backfilled is false for it (files are never removed, so what is
\* backfilled now is backfilled when the next run starts).
C15_FailedIdNotBackfilled ==
    (/\ pc = "loop"
     /\ k > 1
     /\ note.kind = "event"
     /\ ~EventPasses(note.resp))
    => ~already_backfilled(idx_and_eids[k - 1].eid)

\* C15 amended: a failure for an identifier leaves its row 1 in the table and
\* in the registry file and adds no stats record for it, and when the failing
\* run has FORCE off the identifier is not backfilled when the iteration
\* ends; a row that is 1 in the table is 1 in the registry file through the
\* rest of the run, and a kill leaves the file alone; a run lists every row
\* that is 1 and has an identifier, and with FORCE off it gets past a listed
\* identifier that is not backfilled only by fetching its event.
C15_FailureIsRetried ==
    /\ [][FailureStep =>
            /\ df'[Cur.row_idx].is_future_fixture.v = 1
            /\ (IF csv' = startCsv THEN startDf ELSE LoadDf(csv'.rows))
                    [Cur.row_idx].is_future_fixture.v = 1
            /\ Glob(stDir', "stats_", Cur.eid) = Glob(stDir, "stats_", Cur.eid)
            /\ (~FORCE => ~AlreadyBackfilledIn(evDir', stDir', Cur.eid))]_vars
    /\ [](df # <<>> =>
            LET onDisk == IF csv = startCsv THEN startDf ELSE LoadDf(csv.rows) IN
            \A j \in 1..Len(idx_and_eids) :
                df[idx_and_eids[j].row_idx].is_future_fixture.v = 1
                    => onDisk[idx_and_eids[j].row_idx].is_future_fixture.v = 1)
    /\ [][pc' = "killed" => csv' = csv]_vars
    /\ [](pc = "loop" =>
            \A i \in 1..Len(df) :
                (/\ startDf[i].is_future_fixture.v = 1
                 /\ extract_event_id_from_row(df[i]) # None)
                    => \E j \in 1..Len(idx_and_eids) : idx_and_eids[j].row_idx = i)
    /\ [][(/\ InLoop
           /\ ~FORCE
           /\ ~already_backfilled(Cur.eid)
           /\ pc' = "loop"
           /\ k' = k + 1)
          => note'.kind = "event"]_vars

C15_Witness ==
    /\ run = 2
    /\ ~FORCE
    /\ note.kind = "event"
    /\ (k = 1 /\ pc = "fetch_stats") \/ (k = 2 /\ pc = "loop")
    /\ startSt = {}
    /\ \E f \in startEv : f.name = EventName(idx_and_eids[1].eid, 2)
    /\ DiskFlag(idx_and_eids[1].row_idx) = 1

\* The loop stands at a listed identifier that is already backfilled.
AtBackfilledId == InLoop /\ already_backfilled(Cur.eid)

\* C16: at a listed identifier that is already backfilled, a run with FORCE
\* on gets to the next identifier only through an event fetch, a fetch that
\* returns the finished event and well-formed statistics leads to the
\* writes, and each write adds one record for the identifier and keeps the
\* records that were there; a run with FORCE off fetches nothing there and
\* leaves both stream directories as they are.
C16_ForceBypassesGuard ==
    /\ [][(AtBackfilledId /\ FORCE /\ pc' = "loop" /\ k' = k + 1)
          => note'.kind = "event"]_vars
    /\ [][(/\ FORCE
           /\ pc = "fetch_stats"
           /\ note'.kind = "stats"
           /\ GoodFetch(ev_json, note'.resp, Cur.eid))
          => pc' = "write_event"]_vars
    /\ [][(FORCE /\ pc = "write_event" /\ pc' = "write_stats")
          => /\ evDir \subseteq evDir'
             /\ Cardinality(Glob(evDir', "event_", Cur.eid))
                  = Cardinality(Glob(evDir, "event_", Cur.eid)) + 1]_vars
    /\ [][(FORCE /\ pc = "write_stats" /\ pc' = "loop")
          => /\ stDir \subseteq stDir'
             /\ Cardinality(Glob(stDir', "stats_", Cur.eid))
                  = Cardinality(Glob(stDir, "stats_", Cur.eid)) + 1]_vars
    /\ [][(AtBackfilledId /\ ~FORCE)
          => /\ note' = NoNote
             /\ evDir' = evDir
             /\ stDir' = stDir
             /\ pc' \in {"loop", "killed"}]_vars

C16_Witness ==
    /\ FORCE
    /\ pc = "done"
    /\ AlreadyBackfilledIn(startEv, startSt, 1)
    /\ Cardinality(Glob(startEv, "event_", 1)) = 1
    /\ Cardinality(Glob(evDir, "event_", 1)) = 2
    /\ Cardinality(Glob(stDir, "stats_", 1)) = 2

\* --------------------------------------------- write_csv_atomic alone
\* The tables main() can hold at line 325: the loaded table with a non-empty
\* set of its rows set from 1 to 0.
FlippedTables(d) ==
    { [i \in 1..Len(d) |->
         IF i \in S THEN [d[i] EXCEPT !.is_future_fixture = IntCell(0)] ELSE d[i]] :
      S \in (SUBSET { i \in 1..Len(d) : d[i].is_future_fixture.v = 1 }) \ {{}} }

\* What an earlier, interrupted write_csv_atomic can have left at the temp
\* path.
LeftoverTmp == { None, Some(<<>>), Some(<<ResolvedId1>>) }

InitCsv ==
    /\ csv \in { Table(r) : r \in [1..MaxRows -> RowChoices] }
    /\ evDir = {}
    /\ stDir = {}
    /\ now = 1
    /\ run = 1
    /\ FORCE = FALSE
    /\ pc = "persist"
    /\ exc = ""
    /\ df \in FlippedTables(LoadDf(csv.rows))
    /\ idx_and_eids = <<>>
    /\ k = 0
    /\ ev_json = None
    /\ st_json = None
    /\ ev_min = None
    /\ st_min = None
    /\ paths = None
    /\ flipped = 1
    /\ finished_seen = 1
    /\ InitObs
    /\ fnIn = <<>>
    /\ fnOut = <<>>
    /\ csvTmp \in LeftoverTmp

csvFrame ==
    <<evDir, stDir, now, run, FORCE, df, idx_and_eids, k, ev_json, st_json,
      ev_min, st_min, paths, flipped, finished_seen, obsVars, note, fnIn, fnOut>>

\* Line 52, first part: to_csv opens the temp path for writing, which
\* truncates what is there.
CsvOpenTmp ==
    /\ pc = "persist"
    /\ csvTmp' = Some(<<>>)
    /\ pc' = "to_csv"
    /\ UNCHANGED <<csv, exc, csvFrame>>

\* Line 52: to_csv writes the next row of the table to the temp path.
CsvWriteRow ==
    /\ pc = "to_csv"
    /\ Len(csvTmp[1]) < Len(df)
    /\ csvTmp' = Some(Append(csvTmp[1], df[Len(csvTmp[1]) + 1]))
    /\ UNCHANGED <<csv, pc, exc, csvFrame>>

\* The rename of line 53 without waiting for line 52 to return.
ToCsvReturnedAlways == TRUE

\* Line 52 has returned: every row is in the temp file.
ToCsvReturned == Len(csvTmp[1]) = Len(df)

\* Line 53: the temp path is renamed onto the registry path.
CsvReplace ==
    /\ pc = "to_csv"
    /\ ToCsvReturned
    /\ csv' = Table(csvTmp[1])
    /\ csvTmp' = None
    /\ pc' = "done"
    /\ UNCHANGED <<exc, csvFrame>>

\* to_csv or the rename raises OSError; both files stay as they are.
CsvRaises ==
    /\ pc \in {"persist", "to_csv"}
    /\ pc' = "raised"
    /\ exc' = "PersistOSError"
    /\ UNCHANGED <<csv, csvTmp, csvFrame>>

\* The process is killed inside write_csv_atomic; both files stay as they
\* are.
CsvKill ==
    /\ pc \in {"persist", "to_csv"}
    /\ pc' = "killed"
    /\ UNCHANGED <<csv, csvTmp, exc, csvFrame>>

NextCsv ==
    \/ CsvOpenTmp
    \/ CsvWriteRow
    \/ CsvReplace
    \/ CsvRaises
    \/ CsvKill

SpecCsv == InitCsv /\ [][NextCsv]_vars

\* C17: at every instant of write_csv_atomic, a crash or an error inside it
\* included, the file at the registry path holds the complete table it held
\* before or the complete new table; it holds the new table once the call
\* has returned and the old one in every state before the rename.
C17_RegistryNeverPartial ==
    /\ csv \in {startCsv, Table(df)}
    /\ Len(csv.rows) = Len(df)
    /\ (pc = "done" => csv = Table(df) /\ csvTmp = None)
    /\ (pc \in {"persist", "to_csv"} => csv = startCsv)
    /\ (pc \in {"raised", "killed"} => csv = startCsv)

C17_Witness ==
    /\ pc = "killed"
    /\ Len(df) = 2
    /\ csvTmp = Some(<<df[1]>>)
    /\ df[1] # startCsv.rows[1]
    /\ csv = startCsv

\* How main() moves within one run, exits by exception or kill apart.
PcOrder ==
    { <<"loop", "fetch_stats">>, <<"fetch_stats", "loop">>,
      <<"fetch_stats", "write_event">>, <<"write_event", "write_stats">>,
      <<"write_stats", "loop">>, <<"loop", "persist">>, <<"persist", "done">> }

\* C18: the statistics are fetched only with an event payload in hand whose
\* status code is 100; a stream directory changes only with both payloads in
\* hand; a flag is set to 0 only by the step that completes the stats file,
\* with the event file already there, and only for the current row; an event
\* fetch starts only at the head of the loop with nothing left of the
\* previous iteration; and within a run main() moves only along
\* loop, fetch_stats, write_event, write_stats, loop, the position in the
\* list growing by one exactly on each return to the head of the loop.
C18_StatesInOrder ==
    /\ [][note'.kind = "stats"
          => /\ pc = "fetch_stats"
             /\ ev_json # None
             /\ get_status_code(ev_json[1]) = Some(FINISHED_STATUS_CODE)]_vars
    /\ [][(evDir' # evDir \/ stDir' # stDir)
          => /\ pc \in {"write_event", "write_stats"}
             /\ ev_json # None
             /\ st_json # None
             /\ ev_min # None
             /\ st_min # None]_vars
    /\ [][(run' = run /\ df # <<>> /\ df' # <<>> /\ df' # df)
          => /\ pc = "write_stats"
             /\ [name |-> paths[1].event_out, body |-> ev_min] \in evDir
             /\ [name |-> paths[1].stats_out, body |-> st_min] \in stDir'
             /\ \A i \in 1..Len(df) : i # Cur.row_idx => df'[i] = df[i]]_vars
    /\ [][note'.kind = "event"
          => /\ InLoop
             /\ ev_json = None
             /\ st_json = None
             /\ ev_min = None
             /\ st_min = None
             /\ paths = None]_vars
    /\ [][(run' = run /\ pc' \notin {"raised", "killed"})
          => /\ pc' # pc => <<pc, pc'>> \in PcOrder
             /\ k' = (IF pc' = "loop" THEN k + 1 ELSE k)]_vars

C18_Witness ==
    /\ pc = "fetch_stats"
    /\ k = 2
    /\ flipped = 1
    /\ note.kind = "event"
    /\ \E e \in emitted : e.kind = "stats" /\ e.event_id = idx_and_eids[1].eid

\* The rows whose flag this run has set from 1 to 0.
ChangedRows ==
    { i \in 1..Len(df) :
        startDf[i].is_future_fixture.v = 1 /\ df[i].is_future_fixture.v = 0 }

C20_ResolvedOnlyAfterBothFiles ==
    /\ [](df # <<>> =>
            \A i \in ChangedRows :
                LET id == extract_event_id_from_row(df[i])[1] IN
                /\ Glob(evDir \ startEv, "event_", id) # {}
                /\ Glob(stDir \ startSt, "stats_", id) # {})
    /\ [][(pc \in {"write_event", "write_stats"} /\ pc' = "raised")
          => /\ df' = df
             /\ flipped' = flipped
             /\ df[Cur.row_idx].is_future_fixture.v = 1]_vars

C20_Witness ==
    /\ pc = "raised"
    /\ exc = "OSError"
    /\ k = 2
    /\ ChangedRows = {idx_and_eids[1].row_idx}
    /\ Glob(evDir, "event_", idx_and_eids[2].eid) # {}
    /\ Glob(stDir, "stats_", idx_and_eids[2].eid) = {}
    /\ df[idx_and_eids[2].row_idx].is_future_fixture.v = 1

\* The row has an identifier column with a number, or a cell with a link.
HasId(row) == row.event_id # None \/ row.link # None

\* The rows of a loaded table that are pending and yield no identifier.
PendingNoIdRows(d) ==
    { i \in 1..Len(d) : d[i].is_future_fixture.v = 1 /\ ~HasId(d[i]) }

\* The rows of a loaded table that are pending and yield an identifier.
PendingIdRows(d) ==
    { i \in 1..Len(d) : d[i].is_future_fixture.v = 1 /\ HasId(d[i]) }

\* C21 as stated: a run whose table has a pending row without identifier
\* never ends with the ValueError of the identifier extraction.
C21_NoIdNeverFatal ==
    (df # <<>> /\ PendingNoIdRows(startDf) # {})
    => ~(pc = "raised" /\ exc = "ValueError")

\* C21 amended: the list of the run holds, in table order, exactly the
\* pending rows that yield an identifier, each with the number of its
\* identifier column or else of its link; with at least one such row main()
\* enters the loop whatever the number of pending rows without identifier,
\* and a run that returns has gone through the whole list; a pending row
\* without identifier is never changed in memory or on disk; and when rows
\* are pending but none yields an identifier main() raises ValueError with
\* no fetch, no emission and no registry rewrite.
C21_NoIdRowSkipped ==
    /\ [][(run' = run + 1 /\ df' # <<>>)
          => /\ \A j \in 1..Len(idx_and_eids') :
                  LET e == idx_and_eids'[j] IN
                  /\ e.row_idx \in PendingIdRows(df')
                  /\ e.eid = (IF df'[e.row_idx].event_id # None
                              THEN df'[e.row_idx].event_id[1]
                              ELSE df'[e.row_idx].link[1])
                  /\ j > 1 => idx_and_eids'[j - 1].row_idx < e.row_idx
             /\ \A i \in PendingIdRows(df') :
                  \E j \in 1..Len(idx_and_eids') : idx_and_eids'[j].row_idx = i
             /\ IF PendingIdRows(df') # {}
                THEN pc' = "loop" /\ exc' = "" /\ k' = 1
                ELSE IF PendingNoIdRows(df') # {}
                THEN pc' = "raised" /\ exc' = "ValueError"
                ELSE pc' = "done" /\ exc' = ""]_vars
    /\ [](df # <<>> =>
            \A i \in PendingNoIdRows(startDf) :
                /\ df[i] = startDf[i]
                /\ csv.rows[i] = startCsv.rows[i])
    /\ [](pc = "done" /\ idx_and_eids # <<>> => k = Len(idx_and_eids) + 1)
    /\ [](pc = "raised" /\ exc = "ValueError" /\ df # <<>> =>
            /\ PendingIdRows(df) = {}
            /\ PendingNoIdRows(df) # {}
            /\ df = startDf
            /\ evDir = startEv
            /\ stDir = startSt
            /\ csv = startCsv
            /\ statsFetches = 0
            /\ csvWrites = 0)

C21_Witness ==
    /\ run = 2
    /\ pc = "raised"
    /\ exc = "ValueError"
    /\ Len(df) = 2
    /\ df[1].is_future_fixture.v = 0
    /\ PendingNoIdRows(df) = {2}
    /\ \E e \in emitted : e.kind = "stats" /\ e.event_id = 12

\* The identifier has had an event record renamed into place and never a
\* stats record.
HalfOnly(id) ==
    /\ \E e \in emitted : e.kind = "event" /\ e.event_id = id
    /\ ~\E e \in emitted : e.kind = "stats" /\ e.event_id = id

\* main() leaves line 309 without having renamed the stats record.
CrashBetweenWrites == pc = "write_stats" /\ pc' \in {"raised", "killed"}

\* C22 as stated: after a crash between the two writes of an emission,
\* already_backfilled is false for the identifier.
C22_HalfEmittedNotBackfilled ==
    [][CrashBetweenWrites
       => ~AlreadyBackfilledIn(evDir', stDir', Cur.eid)]_vars

\* C22 amended: every file of the stats directory, a temp file included,
\* carries an identifier and a timestamp for which the event directory holds
\* the complete event record; a crash between the two writes adds no file
\* the guard's pattern matches and leaves the registry file alone; with
\* force off no stats record of the identifier exists while the second write
\* is due, so that after such a crash already_backfilled is false; a row of
\* the registry file changes only once a stats record of its identifier has
\* been renamed into place; and a later iteration on an identifier that has
\* an event record but never had a stats record is not skipped.
C22_EventBeforeStats ==
    /\ [](\A f \in stDir :
            \E id \in AllIds, ts \in 1..now :
                /\ f.name \in {StatsName(id, ts), TmpName(StatsName(id, ts))}
                /\ \E g \in evDir : g.name = EventName(id, ts) /\ g.body # None)
    /\ [][CrashBetweenWrites
          => /\ Glob(stDir', "stats_", Cur.eid) = Glob(stDir, "stats_", Cur.eid)
             /\ evDir' = evDir
             /\ csv' = csv
             /\ [name |-> paths[1].event_out, body |-> ev_min] \in evDir'
             /\ (~FORCE => ~AlreadyBackfilledIn(evDir', stDir', Cur.eid))]_vars
    /\ [](pc = "write_stats" /\ ~FORCE
            => Glob(stDir, "stats_", Cur.eid) = {})
    /\ [][\A i \in 1..Len(csv.rows) :
            csv'.rows[i] # csv.rows[i]
            => \E e \in emitted :
                  /\ e.kind = "stats"
                  /\ Some(e.event_id) = extract_event_id_from_row(csv.rows[i])]_vars
    /\ [](InLoop /\ HalfOnly(Cur.eid) => ~SkipTest(Cur.eid))

C22_Witness ==
    /\ run = 2
    /\ ~FORCE
    /\ pc = "fetch_stats"
    /\ note.kind = "event"
    /\ HalfOnly(Cur.eid)
    /\ Glob(startEv, "event_", Cur.eid) # {}
    /\ Glob(startSt, "stats_", Cur.eid) = {}
    /\ FilesOf(startSt, "stats_", Cur.eid) # {}

\* ----------------------------------------------- write_json_atomic alone
\* What earlier emissions of an identifier, completed or interrupted, have
\* left in the two directories.
PriorStatus == {"none", "tmp_event", "event_only", "event_tmp_stats", "pair"}

EventFile(id, ts) == [name |-> EventName(id, ts), body |-> parse_event_min(EvFinished(id))]
StatsFile(id, ts) == [name |-> StatsName(id, ts), body |-> parse_stats_min(StatsOf(id), id)]

PriorEvents(id, status) ==
    CASE status = "none" -> {}
      [] status = "tmp_event" -> {[name |-> TmpName(EventName(id, 1)), body |-> None]}
      [] OTHER -> {EventFile(id, 1)}

PriorStats(id, status) ==
    CASE status = "event_tmp_stats" -> {[name |-> TmpName(StatsName(id, 1)), body |-> None]}
      [] status = "pair" -> {StatsFile(id, 1)}
      [] OTHER -> {}

\* The directory the call of line 308 or 309 writes to.
JsonDir == IF fnIn.kind = "event" THEN evDir ELSE stDir

SetJsonDir(d) ==
    IF fnIn.kind = "event"
    THEN evDir' = d /\ UNCHANGED stDir
    ELSE stDir' = d /\ UNCHANGED evDir

InitJson ==
    /\ \E id \in AllIds, kind \in {"event", "stats"}, prior \in [AllIds -> PriorStatus] :
          /\ evDir = UNION { PriorEvents(i, prior[i]) : i \in AllIds } \cup
                     (IF kind = "stats" THEN {EventFile(id, 2)} ELSE {})
          /\ stDir = UNION { PriorStats(i, prior[i]) : i \in AllIds }
          /\ fnIn = [kind |-> kind,
                     event_id |-> id,
                     path |-> IF kind = "event" THEN out_paths(id, 2).event_out
                              ELSE out_paths(id, 2).stats_out,
                     payload |-> IF kind = "event" THEN EventFile(id, 2).body
                                 ELSE StatsFile(id, 2).body]
    /\ csv = NoCsv
    /\ now = 2
    /\ InitProc
    /\ note = NoNote
    /\ startEv = evDir
    /\ startSt = stDir
    /\ startCsv = csv
    /\ startDf = <<>>
    /\ good = {}
    /\ statsFetches = 0
    /\ csvWrites = 0
    /\ prevDone = FALSE
    /\ emitted = {}
    /\ fnOut = None
    /\ csvTmp = None

jsonFrame ==
    <<csv, now, run, FORCE, df, idx_and_eids, k, ev_json, st_json, ev_min,
      st_min, paths, flipped, finished_seen, obsVars, note, fnIn, fnOut, csvTmp>>

\* Line 45: tmp.open("w") creates the temp file, empty.
JsonOpenTmp ==
    /\ pc = "idle"
    /\ SetJsonDir(WriteTmp(JsonDir, TmpName(fnIn.path), None))
    /\ pc' = "json_open"
    /\ UNCHANGED <<exc, jsonFrame>>

\* Line 46: json.dump has written the whole record and the file is closed.
JsonDump ==
    /\ pc = "json_open"
    /\ SetJsonDir(WriteTmp(JsonDir, TmpName(fnIn.path), fnIn.payload))
    /\ pc' = "json_dumped"
    /\ UNCHANGED <<exc, jsonFrame>>

\* Line 47: the temp file is renamed to the final name.
JsonReplace ==
    /\ pc = "json_dumped"
    /\ SetJsonDir(Replace(JsonDir, TmpName(fnIn.path), fnIn.path))
    /\ pc' = "done"
    /\ UNCHANGED <<exc, jsonFrame>>

\* open, json.dump or replace raises OSError; the files stay as they are.
JsonRaises ==
    /\ pc \in {"idle", "json_open", "json_dumped"}
    /\ pc' = "raised"
    /\ exc' = "OSError"
    /\ UNCHANGED <<evDir, stDir, jsonFrame>>

\* The process is killed inside write_json_atomic; the files stay as they
\* are.
JsonKill ==
    /\ pc \in {"json_open", "json_dumped"}
    /\ pc' = "killed"
    /\ UNCHANGED <<evDir, stDir, exc, jsonFrame>>

NextJson ==
    \/ JsonOpenTmp
    \/ JsonDump
    \/ JsonReplace
    \/ JsonRaises
    \/ JsonKill

SpecJson == InitJson /\ [][NextJson]_vars

\* The files of a directory that are not temp files.
NoTmp(dir) == { f \in dir : f.name[Len(f.name)] # ".tmp" }

\* C23: in every state of write_json_atomic, after a crash or an error
\* inside it included, every file the guard's pattern matches holds a
\* complete record and is no temp file; until the rename the pattern matches
\* exactly the files it matched before the call, the record being written
\* existing only under the final name followed by ".tmp"; temp files make no
\* difference to already_backfilled; and once the call has returned the
\* final name holds the whole record and the temp file is gone.
C23_PartialNeverVisible ==
    /\ \A id \in AllIds :
          /\ \A f \in Glob(evDir, "event_", id) \cup Glob(stDir, "stats_", id) :
                f.body # None
          /\ Glob(evDir, "event_", id) \subseteq NoTmp(evDir)
          /\ Glob(stDir, "stats_", id) \subseteq NoTmp(stDir)
          /\ already_backfilled(id)
                <=> AlreadyBackfilledIn(NoTmp(evDir), NoTmp(stDir), id)
          /\ pc # "done"
                => /\ Glob(evDir, "event_", id) = Glob(startEv, "event_", id)
                   /\ Glob(stDir, "stats_", id) = Glob(startSt, "stats_", id)
    /\ pc \in {"json_open", "json_dumped"}
          => /\ \E f \in JsonDir : f.name = fnIn.path \o <<".tmp">>
             /\ ~\E f \in JsonDir : f.name = fnIn.path
    /\ pc = "json_dumped"
          => [name |-> fnIn.path \o <<".tmp">>, body |-> fnIn.payload] \in JsonDir
    /\ pc = "done"
          => /\ [name |-> fnIn.path, body |-> fnIn.payload] \in JsonDir
             /\ NoTmp(JsonDir) = NoTmp(IF fnIn.kind = "event" THEN startEv ELSE startSt)
                                   \cup {[name |-> fnIn.path, body |-> fnIn.payload]}
             /\ ~\E f \in JsonDir : f.name = fnIn.path \o <<".tmp">>

C23_Witness ==
    /\ pc = "killed"
    /\ fnIn.kind = "stats"
    /\ [name |-> fnIn.path \o <<".tmp">>, body |-> None] \in stDir
    /\ Glob(evDir, "event_", fnIn.event_id) # {}
    /\ ~already_backfilled(fnIn.event_id)

\* The names of the files of a directory.
Names(dir) == { f.name : f \in dir }

\* C24: no step removes or changes a file that has been renamed into place
\* in either stream directory; each emission adds exactly one file to each
\* directory, under a name no file of the directory has; the two names of an
\* emission carry the identifier of the current row and the same timestamp,
\* which is later than the timestamp of every emission before it; and every
\* stats record renamed into place has an event record of the same
\* identifier and timestamp.
C24_StreamsAppendOnly ==
    /\ [][NoTmp(evDir) \subseteq evDir' /\ NoTmp(stDir) \subseteq stDir']_vars
    /\ [][(pc = "write_event" /\ pc' = "write_stats")
          => /\ paths[1].event_out \notin Names(evDir)
             /\ NoTmp(evDir') = NoTmp(evDir) \cup
                   {[name |-> paths[1].event_out, body |-> ev_min]}
             /\ stDir' = stDir]_vars
    /\ [][(pc = "write_stats" /\ pc' = "loop")
          => /\ paths[1].stats_out \notin Names(stDir)
             /\ NoTmp(stDir') = NoTmp(stDir) \cup
                   {[name |-> paths[1].stats_out, body |-> st_min]}
             /\ evDir' = evDir]_vars
    /\ [](pc \in {"write_event", "write_stats"}
            => /\ paths[1].event_out = EventName(Cur.eid, now)
               /\ paths[1].stats_out = StatsName(Cur.eid, now)
               /\ \A e \in emitted :
                     e.ts < now \/ (pc = "write_stats" /\ e.ts = now
                                    /\ e.kind = "event" /\ e.event_id = Cur.eid))
    /\ [](\A e \in emitted :
            /\ e.ts <= now
            /\ e.kind = "event" => \E f \in evDir : f.name = EventName(e.event_id, e.ts)
            /\ e.kind = "stats"
                  => /\ \E f \in stDir : f.name = StatsName(e.event_id, e.ts)
                     /\ [e EXCEPT !.kind = "event"] \in emitted)
    /\ [](Cardinality(NoTmp(evDir)) = Cardinality({e \in emitted : e.kind = "event"})
          /\ Cardinality(NoTmp(stDir)) = Cardinality({e \in emitted : e.kind = "stats"}))

C24_Witness ==
    /\ pc = "done"
    /\ FORCE
    /\ Cardinality(Glob(evDir, "event_", 1)) = 2
    /\ Cardinality(Glob(stDir, "stats_", 1)) = 2
    /\ Cardinality(Glob(startEv, "event_", 1)) = 1

\* ------------------------------------------------- parse_stats_min alone
\* Most groups in a statistics payload handed to parse_stats_min on its own.
MaxGroups == 2

\* homeValue and awayValue as the provider sends them: a number, a numeral,
\* a numeral with a percent sign, text that is no numeral, null.
XgValues ==
    { IntCell(2), StrCell(<<"1">>), StrCell(<<"5", "5", "%">>),
      StrCell(<<"-">>), NullCell }

XgItems == { Item("expectedGoals", h, a) : h \in XgValues, a \in XgValues }

OtherItem == Item("ballPossession", StrCell(<<"5", "5", "%">>), StrCell(<<"4", "5", "%">>))

\* A group without "statisticsItems", with another metric only, with the
\* metric alone, or with the metric after another one.
StatsGroups ==
    { Group(TRUE, None), Group(TRUE, Some(<<OtherItem>>)) } \cup
    { Group(TRUE, Some(<<it>>)) : it \in XgItems } \cup
    { Group(TRUE, Some(<<OtherItem, it>>)) : it \in XgItems }

StatsPayloads ==
    { StatsPayload(TRUE, << Period(TRUE, g) >>) :
        g \in UNION { [1..n -> StatsGroups] : n \in 1..MaxGroups } }

InitStats ==
    /\ csv = NoCsv
    /\ evDir = {}
    /\ stDir = {}
    /\ now = 1
    /\ InitProc
    /\ InitObs
    /\ fnIn \in StatsPayloads
    /\ fnOut = None
    /\ csvTmp = None

\* The call parse_stats_min(stats_json, 1).
CallParseStatsMin ==
    /\ UNCHANGED note
    /\ fnOut = None
    /\ fnOut' = Some(parse_stats_min(fnIn, 1))
    /\ UNCHANGED <<diskVars, now, procVars, obsVars, fnIn, csvTmp>>

NextStats == CallParseStatsMin

SpecStats == InitStats /\ [][NextStats]_vars

\* The items of a group.
ItemsOf(g) == IF g.statisticsItems = None THEN <<>> ELSE g.statisticsItems[1]

HasXg(g) == \E j \in 1..Len(ItemsOf(g)) : ItemsOf(g)[j].key = "expectedGoals"

\* The first item keyed expectedGoals of a group that has one.
FirstXg(g) ==
    LET its == ItemsOf(g)
        j == CHOOSE j \in 1..Len(its) :
                /\ its[j].key = "expectedGoals"
                /\ \A m \in 1..(j - 1) : its[m].key # "expectedGoals"
    IN  its[j]

\* What the rule of the claim gives for a value: the number, the numeral
\* read with a trailing percent sign dropped, null for anything else.
Coerced(x) ==
    CASE x.t \in {"int", "float"} -> Some(x.v)
      [] x.t = "str" ->
            LET s == IF x.s # <<>> /\ x.s[Len(x.s)] = "%"
                     THEN SubSeq(x.s, 1, Len(x.s) - 1) ELSE x.s
            IN  IF s # <<>> /\ \A i \in 1..Len(s) : IsDigit(s[i])
                THEN Some(NatOf(s)) ELSE None
      [] OTHER -> None

\* C25: parse_stats_min returns a record whose home_xg and away_xg are the
\* coerced homeValue and awayValue of the expectedGoals item of the first
\* group that has one, whatever later groups hold.
C25_FirstXgGroupDecides ==
    fnOut # None =>
        LET groups == fnIn.statistics[1].groups
            withXg == { i \in 1..Len(groups) : HasXg(groups[i]) }
        IN  withXg # {} =>
              LET first == CHOOSE i \in withXg : \A m \in withXg : i <= m
                  it == FirstXg(groups[first])
              IN  /\ fnOut[1] # None
                  /\ fnOut[1][1].home_xg = Coerced(it.homeValue)
                  /\ fnOut[1][1].away_xg = Coerced(it.awayValue)

\* C26: normalize_flag_series returns only 0 and 1, and returns 1 for every
\* cell holding the number one, be it the integer 1 or the float 1.0 of a
\* column with a missing value.
C26_NumberOneIsPending ==
    fnOut # None =>
        \A i \in 1..Len(fnIn.cells) :
            /\ fnOut[1][i] \in {0, 1}
            /\ (fnIn.cells[i].t \in {"int", "float"} /\ fnIn.cells[i].v = 1)
                  => fnOut[1][i] = 1

\* The rows of the table as loaded whose flag is 1.
PendingAtLoad == { i \in 1..Len(startDf) : startDf[i].is_future_fixture.v = 1 }

\* The identifiers of the files the current run has added to a directory.
AddedIds(dir, before, kind) ==
    { id \in AllIds : Glob(dir, kind, id) \ Glob(before, kind, id) # {} }

\* C27: normalization changes nothing but the flag column; from then on the
\* table in memory differs from the loaded one only in flags that went from
\* 1 to 0, on rows for whose identifier the run has added a stats record; no
\* step sets a flag from 0 to 1, changes another column or the number or
\* order of the rows; every listed row, every fetch and every write to a
\* stream directory is for a row whose flag was 1 at load and for that row's
\* identifier, force on or off; and a table without a pending row makes
\* main() return with nothing fetched or written.
C27_RegistryFrame ==
    /\ [](df # <<>> =>
            /\ Len(startDf) = Len(startCsv.rows)
            /\ \A i \in 1..Len(startDf) :
                  /\ startDf[i].event_id = startCsv.rows[i].event_id
                  /\ startDf[i].link = startCsv.rows[i].link
                  /\ startDf[i].is_future_fixture \in {IntCell(0), IntCell(1)}
            /\ Len(df) = Len(startDf)
            /\ \A i \in 1..Len(df) :
                  \/ df[i] = startDf[i]
                  \/ /\ i \in PendingAtLoad
                     /\ df[i] = [startDf[i] EXCEPT !.is_future_fixture = IntCell(0)]
                     /\ extract_event_id_from_row(df[i])[1]
                           \in AddedIds(stDir, startSt, "stats_"))
    /\ [][(run' = run /\ df # <<>> /\ df' # <<>>)
          => /\ Len(df') = Len(df)
             /\ \A i \in 1..Len(df) :
                  \/ df'[i] = df[i]
                  \/ /\ df[i].is_future_fixture = IntCell(1)
                     /\ df'[i] = [df[i] EXCEPT !.is_future_fixture = IntCell(0)]]_vars
    /\ [](\A j \in 1..Len(idx_and_eids) :
            /\ idx_and_eids[j].row_idx \in PendingAtLoad
            /\ Some(idx_and_eids[j].eid)
                  = extract_event_id_from_row(startDf[idx_and_eids[j].row_idx]))
    /\ [][note'.kind # ""
          => /\ k \in 1..Len(idx_and_eids)
             /\ Cur.row_idx \in PendingAtLoad]_vars
    /\ [][(evDir' # evDir \/ stDir' # stDir)
          => /\ k \in 1..Len(idx_and_eids)
             /\ Cur.row_idx \in PendingAtLoad
             /\ Names((evDir' \ evDir) \cup (stDir' \ stDir))
                   \subseteq { EventName(Cur.eid, now),
                               EventName(Cur.eid, now) \o <<".tmp">>,
                               StatsName(Cur.eid, now),
                               StatsName(Cur.eid, now) \o <<".tmp">> }]_vars
    /\ [](AddedIds(evDir, startEv, "event_") \cup AddedIds(stDir, startSt, "stats_")
            \subseteq { extract_event_id_from_row(startDf[i])[1] :
                          i \in { r \in PendingAtLoad : HasId(startDf[r]) } })
    /\ [](df # <<>> /\ PendingAtLoad = {}
            => /\ pc = "done"
               /\ idx_and_eids = <<>>
               /\ evDir = startEv
               /\ stDir = startSt
               /\ csv = startCsv
               /\ statsFetches = 0)

C27_Witness ==
    /\ run = 2
    /\ FORCE
    /\ pc = "done"
    /\ Len(df) = 2
    /\ startDf[1].is_future_fixture.v = 0
    /\ extract_event_id_from_row(startDf[1]) = Some(1)
    /\ AlreadyBackfilledIn(startEv, startSt, 1)
    /\ startDf[2].is_future_fixture.v = 1
    /\ df[2].is_future_fixture.v = 0
    /\ AddedIds(evDir, startEv, "event_") = {12}
    /\ AddedIds(stDir, startSt, "stats_") = {12}

====
